---- MODULE Spec2Model ----
\* Model of server.py: the overlay relay (connection registry, event
\* callbacks that broadcast to the registry, and the lifecycle of main()).
\* Everything runs on one asyncio event loop: a step of the model is one
\* uninterrupted run of a coroutine between two suspension points, except
\* that the list comprehension which creates the send tasks takes one step
\* per connection, during which the callback keeps the loop.
EXTENDS Integers, Sequences, FiniteSets, TLC

\* ---------------------------------------------------------------- bounds
NumConns == 2
MaxEvents == 2

Conns == 1..NumConns
Events == 1..MaxEvents

\* --------------------------------------------------------- configuration
Creds == {"app_id", "app_secret", "target_channel"}

\* The environments main() is started in: the relay-only flag and the set of
\* upstream credentials that are non-empty.
ConfigInputs ==
    {[relay |-> TRUE, creds |-> {}], [relay |-> FALSE, creds |-> Creds]}
        \cup {[relay |-> FALSE, creds |-> cs] : cs \in (SUBSET Creds) \ {Creds}}

EventKinds == {"redemption", "cheer"}

VARIABLES
    BDS_RELAY_ONLY,     \* configuration flag
    credsSet,           \* the credentials that are non-empty
    pc,                 \* position of main()
    err,                \* exception main() ended with ("none" if none)
    wsBound,            \* the websocket listener accepts connections
    httpBound,          \* the HTTP site is started
    twitchOpen,         \* the Twitch client exists and is not closed
    subs,               \* event kinds subscribed on the EventSub client
    upstreamOps,        \* history: upstream calls performed so far
    conn,               \* per connection: "none", "open", "closed"
    hstate,             \* per connection: state of its ws_handler task
    connected_clients,  \* the registry
    ready,              \* the event loop's FIFO queue of runnable tasks
    bstate,             \* per event: state of its callback task
    event,              \* per event: the data record given to the callback
    payload,            \* per event: the serialized payload ("none" if none)
    tstate,             \* per event and connection: state of the send task
    recv,               \* per connection: what was written to it, in order
    started,            \* history: events in the order their callback ran
    regAtStart,         \* history: per event, the registry when its callback ran
    regTrace,           \* history: the registry operations applied directly
    iter,               \* the callback that is iterating the registry, if any
    serialized,         \* history: per event, the number of json.dumps calls
    cheerIn,            \* a cheer record given to on_cheer on its own
    cheerOut            \* the payload on_cheer builds for cheerIn

vars == <<BDS_RELAY_ONLY, credsSet, pc, err, wsBound, httpBound, twitchOpen,
          subs, upstreamOps, conn, hstate, connected_clients, ready, bstate,
          event, payload, tstate, recv, started, regAtStart, regTrace, iter,
          serialized, cheerIn, cheerOut>>

mainVars == <<pc, err, wsBound, httpBound, twitchOpen, subs, upstreamOps>>
cfgVars == <<BDS_RELAY_ONLY, credsSet>>
connVars == <<conn, hstate, connected_clients>>
castVars == <<bstate, event, payload, tstate, recv, started, regAtStart, regTrace,
              iter, serialized, cheerIn, cheerOut>>

\* A user name is <<>> (None) or <<name>>.
NoEvent == [kind |-> "none", user |-> <<>>, reward |-> "", bits |-> 0]
\* No payload has been serialized (the local variable is unbound).
NoPayload == [unbound |-> TRUE]
\* No callback is inside the list comprehension of line 90 / 192.
NoIter == [b |-> 0, left |-> <<>>]

InitProgram ==
    /\ \E cfg \in ConfigInputs :
          /\ BDS_RELAY_ONLY = cfg.relay
          /\ credsSet = cfg.creds
    /\ pc = "start"
    /\ err = "none"
    /\ wsBound = FALSE
    /\ httpBound = FALSE
    /\ twitchOpen = FALSE
    /\ subs = {}
    /\ upstreamOps = {}
    /\ conn = [c \in Conns |-> "none"]
    /\ hstate = [c \in Conns |-> "none"]
    /\ connected_clients = {}
    /\ ready = <<>>
    /\ bstate = [b \in Events |-> "none"]
    /\ event = [b \in Events |-> NoEvent]
    /\ payload = [b \in Events |-> NoPayload]
    /\ tstate = [b \in Events |-> [c \in Conns |-> "none"]]
    /\ recv = [c \in Conns |-> <<>>]
    /\ started = <<>>
    /\ regAtStart = [b \in Events |-> {}]
    /\ regTrace = <<>>
    /\ iter = NoIter
    /\ serialized = [b \in Events |-> 0]

Init ==
    /\ InitProgram
    /\ cheerIn = NoEvent
    /\ cheerOut = NoPayload

\* Variant: the comprehension awaits inside its loop.
IterationYieldsAlways == TRUE

\* lines 90, 192: there is no await between two elements of the
\* comprehension, so the callback does not yield the loop while it iterates.
IterationYields == FALSE

\* The loop can run another task, or handle an event from outside.
LoopFree == iter.b = 0 \/ IterationYields

\* ------------------------------------------------------------- main()
\* Positions of main() at which it is suspended in an await of Starting.
StartingPcs == {"start", "runner_setup", "site_start", "twitch_init",
                "auth_saved", "auth_browser", "auth_set", "get_users",
                "sub_redemption", "sub_cheer"}
RunningPcs == {"running"}
DrainingPcs == {"eventsub_stop", "runner_cleanup", "twitch_close"}
EndedPcs == {"stopped", "aborted", "exited"}

\* The exception an awaited startup call raises when it fails.
StepError(p) ==
    CASE p = "start" -> "ws_bind_failed"
      [] p \in {"runner_setup", "site_start"} -> "http_bind_failed"
      [] p = "twitch_init" -> "twitch_client_failed"
      [] p \in {"auth_browser", "auth_set"} -> "auth_failed"
      [] p = "get_users" -> "get_users_failed"
      [] p \in {"sub_redemption", "sub_cheer"} -> "subscribe_failed"
      [] OTHER -> "none"

\* Variant: the relay-only flag is not consulted.
RelayOnlyIgnored == FALSE

\* line 109: the relay-only branch is taken.
RelayOnly == BDS_RELAY_ONLY

\* line 121: some upstream credential is empty.
MissingConfig == credsSet # Creds

\* line 98: websockets.serve() returned, the listener is bound; main()
\* goes on to runner.setup() (line 104).
ServeWs ==
    /\ pc = "start"
    /\ pc' = "runner_setup"
    /\ wsBound' = TRUE
    /\ UNCHANGED <<err, httpBound, twitchOpen, subs, upstreamOps>>
    /\ UNCHANGED <<cfgVars, connVars, ready, castVars>>

\* line 104: runner.setup() returned; main() awaits site.start() (line 106).
RunnerSetup ==
    /\ pc = "runner_setup"
    /\ pc' = "site_start"
    /\ UNCHANGED <<err, wsBound, httpBound, twitchOpen, subs, upstreamOps>>
    /\ UNCHANGED <<cfgVars, connVars, ready, castVars>>

\* lines 106-112: site.start() returned and relay-only mode is on: main()
\* waits for cancellation.
SiteStartRelayOnly ==
    /\ pc = "site_start"
    /\ RelayOnly
    /\ httpBound' = TRUE
    /\ pc' = "running"
    /\ UNCHANGED <<err, wsBound, twitchOpen, subs, upstreamOps>>
    /\ UNCHANGED <<cfgVars, connVars, ready, castVars>>

\* lines 106-122: site.start() returned, relay-only mode is off and a
\* credential is missing: RuntimeError.
SiteStartConfigError ==
    /\ pc = "site_start"
    /\ ~RelayOnly
    /\ MissingConfig
    /\ httpBound' = TRUE
    /\ pc' = "aborted"
    /\ err' = "config"
    /\ UNCHANGED <<wsBound, twitchOpen, subs, upstreamOps>>
    /\ UNCHANGED <<cfgVars, connVars, ready, castVars>>

\* lines 106-123: site.start() returned and the credentials are there:
\* main() awaits Twitch(APP_ID, APP_SECRET).
SiteStartTwitch ==
    /\ pc = "site_start"
    /\ ~RelayOnly
    /\ ~MissingConfig
    /\ httpBound' = TRUE
    /\ pc' = "twitch_init"
    /\ upstreamOps' = upstreamOps \cup {"client"}
    /\ UNCHANGED <<err, wsBound, twitchOpen, subs>>
    /\ UNCHANGED <<cfgVars, connVars, ready, castVars>>

\* lines 123-142: the client exists; load_tokens() either finds saved
\* tokens (set_user_authentication is awaited, line 133) or not (the
\* browser flow is awaited, line 142).
TwitchCreated ==
    /\ pc = "twitch_init"
    /\ twitchOpen' = TRUE
    /\ \E saved \in BOOLEAN :
          IF saved
          THEN /\ pc' = "auth_saved"
               /\ upstreamOps' = upstreamOps \cup {"set_user_authentication"}
          ELSE /\ pc' = "auth_browser"
               /\ upstreamOps' = upstreamOps \cup {"authenticate"}
    /\ UNCHANGED <<err, wsBound, httpBound, subs>>
    /\ UNCHANGED <<cfgVars, connVars, ready, castVars>>

\* lines 133-149: the saved tokens were accepted (get_users is awaited) or
\* rejected (the exception is caught, token = None, the browser flow is
\* awaited).
AuthSaved ==
    /\ pc = "auth_saved"
    /\ \E ok \in BOOLEAN :
          IF ok
          THEN /\ pc' = "get_users"
               /\ upstreamOps' = upstreamOps \cup {"get_users"}
          ELSE /\ pc' = "auth_browser"
               /\ upstreamOps' = upstreamOps \cup {"authenticate"}
    /\ UNCHANGED <<err, wsBound, httpBound, twitchOpen, subs>>
    /\ UNCHANGED <<cfgVars, connVars, ready, castVars>>

\* lines 142-143: auth.authenticate() returned tokens.
AuthBrowser ==
    /\ pc = "auth_browser"
    /\ pc' = "auth_set"
    /\ upstreamOps' = upstreamOps \cup {"set_user_authentication"}
    /\ UNCHANGED <<err, wsBound, httpBound, twitchOpen, subs>>
    /\ UNCHANGED <<cfgVars, connVars, ready, castVars>>

\* lines 143-149: the fresh tokens were set and saved; get_users is awaited.
AuthSet ==
    /\ pc = "auth_set"
    /\ pc' = "get_users"
    /\ upstreamOps' = upstreamOps \cup {"get_users"}
    /\ UNCHANGED <<err, wsBound, httpBound, twitchOpen, subs>>
    /\ UNCHANGED <<cfgVars, connVars, ready, castVars>>

\* lines 149-161: get_users yielded the channel's user: EventSub is started
\* and the redemption subscription is awaited.
GetUsersFound ==
    /\ pc = "get_users"
    /\ pc' = "sub_redemption"
    /\ upstreamOps' = upstreamOps \cup {"eventsub_start", "listen_redemption"}
    /\ UNCHANGED <<err, wsBound, httpBound, twitchOpen, subs>>
    /\ UNCHANGED <<cfgVars, connVars, ready, castVars>>

\* lines 149-153: get_users yielded nothing: RuntimeError.
GetUsersNotFound ==
    /\ pc = "get_users"
    /\ pc' = "aborted"
    /\ err' = "user_not_found"
    /\ UNCHANGED <<wsBound, httpBound, twitchOpen, subs, upstreamOps>>
    /\ UNCHANGED <<cfgVars, connVars, ready, castVars>>

\* lines 161-162: the redemption subscription is made; the cheer
\* subscription is awaited.
SubRedemption ==
    /\ pc = "sub_redemption"
    /\ subs' = subs \cup {"redemption"}
    /\ pc' = "sub_cheer"
    /\ upstreamOps' = upstreamOps \cup {"listen_cheer"}
    /\ UNCHANGED <<err, wsBound, httpBound, twitchOpen>>
    /\ UNCHANGED <<cfgVars, connVars, ready, castVars>>

\* lines 162-167: the cheer subscription is made; main() waits for
\* cancellation.
SubCheer ==
    /\ pc = "sub_cheer"
    /\ subs' = subs \cup {"cheer"}
    /\ pc' = "running"
    /\ UNCHANGED <<err, wsBound, httpBound, twitchOpen, upstreamOps>>
    /\ UNCHANGED <<cfgVars, connVars, ready, castVars>>

\* An awaited call of Starting raises, or main() is cancelled while it
\* awaits one: nothing in main() catches it before line 166 (only the
\* saved-token failure of line 133 is caught), so main() ends with it.
StartupRaises ==
    /\ pc \in StartingPcs \ {"auth_saved"}
    /\ \E e \in {StepError(pc), "cancelled"} : err' = e
    /\ pc' = "aborted"
    /\ UNCHANGED <<wsBound, httpBound, twitchOpen, subs, upstreamOps>>
    /\ UNCHANGED <<cfgVars, connVars, ready, castVars>>

\* lines 111-117: cancellation in relay-only mode: ws_server.close(), return.
CancelRelayOnly ==
    /\ pc = "running"
    /\ RelayOnly
    /\ wsBound' = FALSE
    /\ pc' = "stopped"
    /\ UNCHANGED <<err, httpBound, twitchOpen, subs, upstreamOps>>
    /\ UNCHANGED <<cfgVars, connVars, ready, castVars>>

\* lines 166-171: cancellation in normal mode: eventsub.stop() is awaited.
CancelNormal ==
    /\ pc = "running"
    /\ ~RelayOnly
    /\ pc' = "eventsub_stop"
    /\ upstreamOps' = upstreamOps \cup {"eventsub_stop"}
    /\ UNCHANGED <<err, wsBound, httpBound, twitchOpen, subs>>
    /\ UNCHANGED <<cfgVars, connVars, ready, castVars>>

\* lines 171-173: EventSub stopped; ws_server.close(); runner.cleanup() is
\* awaited.
EventsubStopped ==
    /\ pc = "eventsub_stop"
    /\ subs' = {}
    /\ wsBound' = FALSE
    /\ pc' = "runner_cleanup"
    /\ UNCHANGED <<err, httpBound, twitchOpen, upstreamOps>>
    /\ UNCHANGED <<cfgVars, connVars, ready, castVars>>

\* lines 173-174: the HTTP runner is cleaned up; twitch.close() is awaited.
RunnerCleaned ==
    /\ pc = "runner_cleanup"
    /\ httpBound' = FALSE
    /\ pc' = "twitch_close"
    /\ upstreamOps' = upstreamOps \cup {"twitch_close"}
    /\ UNCHANGED <<err, wsBound, twitchOpen, subs>>
    /\ UNCHANGED <<cfgVars, connVars, ready, castVars>>

\* line 174: the client is closed; main() returns.
TwitchClosed ==
    /\ pc = "twitch_close"
    /\ twitchOpen' = FALSE
    /\ pc' = "stopped"
    /\ UNCHANGED <<err, wsBound, httpBound, subs, upstreamOps>>
    /\ UNCHANGED <<cfgVars, connVars, ready, castVars>>

Main ==
    /\ LoopFree
    /\ \/ ServeWs \/ RunnerSetup
       \/ SiteStartRelayOnly \/ SiteStartConfigError \/ SiteStartTwitch
       \/ TwitchCreated \/ AuthSaved \/ AuthBrowser \/ AuthSet
       \/ GetUsersFound \/ GetUsersNotFound \/ SubRedemption \/ SubCheer
       \/ StartupRaises
       \/ CancelRelayOnly \/ CancelNormal
       \/ EventsubStopped \/ RunnerCleaned \/ TwitchClosed

\* ------------------------------------------------------- the event loop
\* An entry of the loop's queue: a task that is ready to take its next step.
Item(k, b, c) == [k |-> k, b |-> b, c |-> c]

\* Variant: a new task is run before the tasks already waiting.
EnqueueFront(q, item) == <<item>> \o q

\* asyncio.create_task / a future's wake-up: call_soon appends to the queue.
Enqueue(q, item) == Append(q, item)

\* The orders in which iterating a set can yield its elements.
Orders(S) ==
    {s \in [1..Cardinality(S) -> S] : \A i, j \in DOMAIN s : i # j => s[i] # s[j]}

\* ------------------------------------------------------- the registry
\* Variant: the registry is replaced by the new connection alone.
SetAddReplaces(s, c) == {c}

\* set.add (line 66)
SetAdd(s, c) == s \cup {c}

\* Variant: the element is looked up but not taken out.
SetRemoveKeeps(s, c) == [set |-> s, error |-> IF c \in s THEN "none" ELSE "KeyError"]

\* Variant: the whole registry is emptied.
SetRemoveClears(s, c) == [set |-> {}, error |-> IF c \in s THEN "none" ELSE "KeyError"]

\* set.remove (line 71): KeyError when the element is absent.
SetRemove(s, c) ==
    IF c \in s THEN [set |-> s \ {c}, error |-> "none"]
    ELSE [set |-> s, error |-> "KeyError"]

\* ------------------------------------------------------- ws_handler
\* Connections are numbered in the order they are accepted.
NextConn == Cardinality({c \in Conns : conn[c] # "none"}) + 1

\* lines 64-69: the listener accepts a connection and its handler runs up
\* to wait_closed().
Connect(c) ==
    /\ LoopFree
    /\ wsBound
    /\ pc # "exited"
    /\ c = NextConn
    /\ conn[c] = "none"
    /\ conn' = [conn EXCEPT ![c] = "open"]
    /\ connected_clients' = SetAdd(connected_clients, c)
    /\ hstate' = [hstate EXCEPT ![c] = "waiting"]
    /\ UNCHANGED <<cfgVars, mainVars, ready, castVars>>

\* Variant: the close of the connection does not wake the handler.
WakeHandlerLost(q, c) == q

\* line 69: wait_closed() is resolved, the handler task becomes runnable.
WakeHandler(q, c) == Enqueue(q, Item("handler", 0, c))

\* The connection closes (the peer, a network error, or the server closing
\* it): wait_closed() is resolved and the handler becomes runnable.
Close(c) ==
    /\ LoopFree
    /\ conn[c] = "open"
    /\ pc # "exited"
    /\ conn' = [conn EXCEPT ![c] = "closed"]
    /\ hstate' = [hstate EXCEPT ![c] = "woken"]
    /\ ready' = WakeHandler(ready, c)
    /\ UNCHANGED <<cfgVars, mainVars, connected_clients, castVars>>

\* What the finally block of ws_handler (lines 70-72) does to the handler
\* and the registry.
HandlerAfterFinally(reg, c) ==
    IF SetRemove(reg, c).error = "none" THEN "done" ELSE "KeyError"

\* lines 70-72, after wait_closed() returned.
HandlerFinally(c) ==
    /\ connected_clients' = SetRemove(connected_clients, c).set
    /\ hstate' = [hstate EXCEPT ![c] = HandlerAfterFinally(connected_clients, c)]
    /\ ready' = Tail(ready)
    /\ UNCHANGED <<cfgVars, mainVars, conn, castVars>>

\* ------------------------------------------------------- event callbacks
NextEvent == Cardinality({b \in Events : bstate[b] # "none"}) + 1

EventInputs ==
    {[kind |-> "redemption", user |-> <<"alice">>, reward |-> "Free Hug", bits |-> 0],
     [kind |-> "cheer", user |-> <<>>, reward |-> "", bits |-> 50]}

\* `x or "Anonymous"` (line 179): None and the empty string are falsy.
OrAnonymous(u) == IF u = <<>> \/ u = <<"">> THEN "Anonymous" ELSE u[1]

\* Variant: the text is shown only above 100 bits.
SerializeAbove100(e) ==
    IF e.kind = "cheer"
    THEN [type |-> "cheer",
          user |-> OrAnonymous(e.user),
          beans |-> e.bits * 2,
          showText |-> e.bits > 100]
    ELSE [reward |-> e.reward, user |-> e.user]

\* The payload of lines 85-88 and of lines 179-191; the JSON object that
\* json.dumps writes is a record.
Serialize(e) ==
    IF e.kind = "cheer"
    THEN [type |-> "cheer",
          user |-> OrAnonymous(e.user),
          beans |-> e.bits * 2,
          showText |-> e.bits >= 100]
    ELSE [reward |-> e.reward, user |-> e.user]

\* EventSub received a notification of a subscribed kind and created the
\* task of its callback. The callbacks are taken to run on the loop main()
\* runs on (they call asyncio.create_task and send on main()'s connections).
UpstreamEvent(b) ==
    /\ LoopFree
    /\ b = NextEvent
    /\ b \in Events
    /\ pc # "exited"
    /\ \E e \in EventInputs :
          /\ e.kind \in subs
          /\ event' = [event EXCEPT ![b] = e]
    /\ bstate' = [bstate EXCEPT ![b] = "queued"]
    /\ ready' = Enqueue(ready, Item("callback", b, 0))
    /\ UNCHANGED <<cfgVars, mainVars, connVars, payload, tstate, recv, started,
                   regAtStart, regTrace, iter, serialized,
                   cheerIn, cheerOut>>

\* Variant: connections that are already closed are skipped.
RecipientsOpenOnly(reg) == {c \in reg : conn[c] = "open"}

\* Variant: the first connection of the registry is skipped.
RecipientsSkipFirst(reg) == reg \ {CHOOSE c \in reg : \A d \in reg : c <= d}

\* lines 90 and 192: the connections a send task is created for.
Recipients(reg) == reg

\* Variant: the registry is not tested before the payload is built.
HasClientsAlways(reg) == TRUE

\* lines 84, 185: `if connected_clients:`
HasClients(reg) == reg # {}

\* lines 84-90 and 185-192 with a non-empty registry: serialize the payload
\* and enter the comprehension over the registry.
CallbackStart(b) ==
    /\ iter = NoIter
    /\ HasClients(connected_clients)
    /\ payload' = [payload EXCEPT ![b] = Serialize(event[b])]
    /\ serialized' = [serialized EXCEPT ![b] = @ + 1]
    /\ started' = Append(started, b)
    /\ regAtStart' = [regAtStart EXCEPT ![b] = connected_clients]
    /\ ready' = Tail(ready)
    /\ IF Recipients(connected_clients) = {}
       THEN \* lines 91, 193: `if tasks:` is false, the callback returns
            /\ bstate' = [bstate EXCEPT ![b] = "returned"]
            /\ iter' = NoIter
       ELSE /\ bstate' = [bstate EXCEPT ![b] = "iterating"]
            /\ \E order \in Orders(Recipients(connected_clients)) :
                  iter' = [b |-> b, left |-> order]
    /\ UNCHANGED <<cfgVars, mainVars, connVars, event, tstate, recv, regTrace,
                   cheerIn, cheerOut>>

\* lines 84 and 185 with an empty registry: the callback returns.
CallbackNoClients(b) ==
    /\ iter = NoIter
    /\ ~HasClients(connected_clients)
    /\ bstate' = [bstate EXCEPT ![b] = "returned"]
    /\ started' = Append(started, b)
    /\ regAtStart' = [regAtStart EXCEPT ![b] = connected_clients]
    /\ ready' = Tail(ready)
    /\ UNCHANGED <<cfgVars, mainVars, connVars, event, payload, tstate, recv,
                   regTrace, iter, serialized,
                   cheerIn, cheerOut>>

\* lines 90-92 and 192-194: the comprehension yields its next connection and
\* creates the send task for it; after the last one the callback awaits
\* asyncio.wait(tasks). A set that changed size since the iteration began
\* makes the iterator raise RuntimeError.
IterStep ==
    /\ iter.b # 0
    /\ LET b == iter.b
           c == Head(iter.left)
       IN IF Cardinality(connected_clients) # Cardinality(regAtStart[b])
          THEN /\ bstate' = [bstate EXCEPT ![b] = "raised"]
               /\ iter' = NoIter
               /\ UNCHANGED <<tstate, ready>>
          ELSE /\ tstate' = [tstate EXCEPT ![b][c] = "ready"]
               /\ ready' = Enqueue(ready, Item("send", b, c))
               /\ IF Tail(iter.left) = <<>>
                  THEN /\ iter' = NoIter
                       /\ bstate' = [bstate EXCEPT ![b] = "waiting"]
                  ELSE /\ iter' = [iter EXCEPT !.left = Tail(@)]
                       /\ UNCHANGED bstate
    /\ UNCHANGED <<cfgVars, mainVars, connVars, event, payload, recv, started,
                   regAtStart, regTrace, serialized,
                   cheerIn, cheerOut>>

Finished == {"ok", "failed", "cancelled"}

\* Variant: the wait ends as soon as one task is done
\* (return_when=FIRST_COMPLETED).
WakeAtFirstDone(q, ts, b) ==
    IF \E c \in Conns : ts[b][c] \in Finished
    THEN Enqueue(q, Item("wake", b, 0))
    ELSE q

\* asyncio.wait (lines 92, 194): when the last task of the event is done,
\* the callback becomes runnable.
WakeIfJoined(q, ts, b) ==
    IF \A c \in Conns : ts[b][c] \in Finished \cup {"none"}
    THEN Enqueue(q, Item("wake", b, 0))
    ELSE q

\* Variant: the payload is built again for each recipient, with the
\* recipient in it.
TaskPayloadPerRecipient(b, c) == [to |-> c, body |-> payload[b]]

\* lines 90, 192: the one string `payload` is the argument of every send.
TaskPayload(b, c) == payload[b]

\* client.send(payload): the first step of a send task. On an open
\* connection the message is written, and the send either returns or waits
\* for the write buffer to drain; on a closed one it raises ConnectionClosed.
SendStep(b, c) ==
    /\ \E after \in (IF conn[c] = "open" THEN {"ok", "blocked"} ELSE {"failed"}) :
          /\ tstate' = [tstate EXCEPT ![b][c] = after]
          /\ ready' = WakeIfJoined(Tail(ready), tstate', b)
    /\ recv' = IF conn[c] = "open"
               THEN [recv EXCEPT ![c] = Append(@, [ev |-> b, payload |-> TaskPayload(b, c)])]
               ELSE recv
    /\ UNCHANGED <<cfgVars, mainVars, connVars, bstate, event, payload, started,
                   regAtStart, regTrace, iter, serialized,
                   cheerIn, cheerOut>>

\* A send that waits for the buffer to drain ends: the buffer drained, or
\* the connection was lost.
DrainEnds(b, c) ==
    /\ LoopFree
    /\ tstate[b][c] = "blocked"
    /\ pc # "exited"
    /\ tstate' = [tstate EXCEPT ![b][c] = IF conn[c] = "open" THEN "ok" ELSE "failed"]
    /\ ready' = WakeIfJoined(ready, tstate', b)
    /\ UNCHANGED <<cfgVars, mainVars, connVars, bstate, event, payload, recv, started,
                   regAtStart, regTrace, iter, serialized,
                   cheerIn, cheerOut>>

\* Variant: the results of the send tasks are collected and the first
\* exception among them is raised.
JoinRaisesFailure(ts, b) ==
    IF \E c \in Conns : ts[b][c] = "failed" THEN "raised" ELSE "returned"

\* lines 92, 194: asyncio.wait returns the sets of done and pending tasks;
\* the callback never retrieves a task's exception.
JoinResult(ts, b) == "returned"

\* asyncio.wait returned: the callback returns (lines 92, 194).
CallbackReturns(b) ==
    /\ bstate' = [bstate EXCEPT ![b] = JoinResult(tstate, b)]
    /\ ready' = Tail(ready)
    /\ UNCHANGED <<cfgVars, mainVars, connVars, event, payload, tstate, recv, started,
                   regAtStart, regTrace, iter, serialized,
                   cheerIn, cheerOut>>

\* The loop runs the task at the head of its queue.
RunHead ==
    /\ LoopFree
    /\ ready # <<>>
    /\ pc # "exited"
    /\ LET it == Head(ready) IN
          \/ it.k = "handler" /\ HandlerFinally(it.c)
          \/ it.k = "callback" /\ CallbackStart(it.b)
          \/ it.k = "callback" /\ CallbackNoClients(it.b)
          \/ it.k = "send" /\ SendStep(it.b, it.c)
          \/ it.k = "wake" /\ CallbackReturns(it.b)

\* -------------------------------------------------- asyncio.run teardown
\* lines 197-201: main() has ended; asyncio.run cancels every remaining
\* task and runs the loop until they have ended (a cancelled handler runs
\* its finally block), then the process exits.
RECURSIVE RemoveAll(_, _)
RemoveAll(reg, cs) ==
    IF cs = {} THEN reg
    ELSE LET c == CHOOSE x \in cs : TRUE
         IN RemoveAll(SetRemove(reg, c).set, cs \ {c})

Teardown ==
    /\ LoopFree
    /\ pc \in {"stopped", "aborted"}
    /\ pc' = "exited"
    /\ LET live == {c \in Conns : hstate[c] \in {"waiting", "woken"}} IN
          /\ connected_clients' = RemoveAll(connected_clients, live)
          /\ hstate' = [c \in Conns |->
                          IF c \in live
                          THEN HandlerAfterFinally(connected_clients, c)
                          ELSE hstate[c]]
    /\ conn' = [c \in Conns |-> IF conn[c] = "open" THEN "closed" ELSE conn[c]]
    /\ bstate' = [b \in Events |->
                    IF bstate[b] \in {"queued", "waiting"} THEN "cancelled" ELSE bstate[b]]
    /\ tstate' = [b \in Events |-> [c \in Conns |->
                    IF tstate[b][c] \in {"ready", "blocked"} THEN "cancelled"
                    ELSE tstate[b][c]]]
    /\ ready' = <<>>
    /\ wsBound' = FALSE
    /\ httpBound' = FALSE
    /\ twitchOpen' = FALSE
    /\ subs' = {}
    /\ UNCHANGED <<cfgVars, err, upstreamOps, event, payload, recv, started,
                   regAtStart, regTrace, iter, serialized,
                   cheerIn, cheerOut>>

Next ==
    \/ Main
    \/ \E c \in Conns : Connect(c)
    \/ \E c \in Conns : Close(c)
    \/ \E b \in Events : UpstreamEvent(b)
    \/ RunHead
    \/ \E b \in Events, c \in Conns : DrainEnds(b, c)
    \/ IterStep
    \/ Teardown

Spec == Init /\ [][Next]_vars

\* The loop keeps running runnable tasks, and asyncio.run always tears down
\* once main() has ended.
FairSpec == Spec /\ WF_vars(RunHead) /\ WF_vars(IterStep) /\ WF_vars(Teardown)

TypeOK ==
    /\ pc \in StartingPcs \cup RunningPcs \cup DrainingPcs \cup EndedPcs
    /\ connected_clients \subseteq Conns
    /\ \A c \in Conns : conn[c] \in {"none", "open", "closed"}

\* ---------------------------------------- the registry operations alone
\* The two registry operations of ws_handler (lines 66 and 71) applied to
\* any connection in any registry, each application recorded.
MaxRegOps == 4

RegEntry(op, c, before, res) ==
    [op |-> op, c |-> c, before |-> before, after |-> res.set, error |-> res.error]

Register(c) ==
    /\ Len(regTrace) < MaxRegOps
    /\ connected_clients' = SetAdd(connected_clients, c)
    /\ regTrace' = Append(regTrace,
           RegEntry("register", c, connected_clients,
                    [set |-> SetAdd(connected_clients, c), error |-> "none"]))
    /\ UNCHANGED <<cfgVars, mainVars, conn, hstate, ready, bstate, event, payload,
                   tstate, recv, started, regAtStart, iter, serialized,
                   cheerIn, cheerOut>>

Unregister(c) ==
    /\ Len(regTrace) < MaxRegOps
    /\ connected_clients' = SetRemove(connected_clients, c).set
    /\ regTrace' = Append(regTrace,
           RegEntry("unregister", c, connected_clients, SetRemove(connected_clients, c)))
    /\ UNCHANGED <<cfgVars, mainVars, conn, hstate, ready, bstate, event, payload,
                   tstate, recv, started, regAtStart, iter, serialized,
                   cheerIn, cheerOut>>

RegNext ==
    \/ \E c \in Conns : Register(c)
    \/ \E c \in Conns : Unregister(c)

SpecRegistry == Init /\ [][RegNext]_vars

\* ------------------------------------------------- on_cheer's payload alone
\* on_cheer's normalization (lines 178-191) applied to any cheer record.
MaxBits == 101

CheerInputs ==
    {[kind |-> "cheer", user |-> u, reward |-> "", bits |-> n] :
        u \in {<<>>, <<"">>, <<"alice">>}, n \in 0..MaxBits}

CheerInit ==
    /\ InitProgram
    /\ cheerIn \in CheerInputs
    /\ cheerOut = NoPayload

OnCheerPayload ==
    /\ cheerOut = NoPayload
    /\ cheerOut' = Serialize(cheerIn)
    /\ UNCHANGED <<cfgVars, mainVars, connVars, ready, bstate, event, payload, tstate,
                   recv, started, regAtStart, regTrace, iter, serialized, cheerIn>>

SpecCheer == CheerInit /\ [][OnCheerPayload]_vars

\* ================================================================ claims
\* How many times the payload of event b was written to connection c.
Count(c, b) == Cardinality({i \in DOMAIN recv[c] : recv[c][i].ev = b})

\* Position of event b in the order the broadcasts started (0: not started).
StartPos(b) ==
    IF \E i \in DOMAIN started : started[i] = b
    THEN CHOOSE i \in DOMAIN started : started[i] = b
    ELSE 0

\* C1: a broadcast started with a non-empty registry sends its payload
\* exactly once to every connection that was registered at its start and is
\* still open when the callback has returned, and never twice to anyone.
C1_ExactlyOnce ==
    \A b \in Events :
        /\ \A c \in Conns : Count(c, b) <= 1
        /\ (bstate[b] = "returned" /\ regAtStart[b] # {}) =>
              \A c \in regAtStart[b] : conn[c] = "open" => Count(c, b) = 1

\* C1 witness: a returned broadcast over two registered connections that
\* both stayed open and both got the payload once.
C1_Witness ==
    \E b \in Events :
        /\ bstate[b] = "returned"
        /\ Cardinality(regAtStart[b]) >= 2
        /\ \A c \in regAtStart[b] : conn[c] = "open" /\ Count(c, b) = 1

\* C2: when the send to one connection of a broadcast fails, every other
\* connection of that broadcast that is open once the callback has returned
\* got the payload, and the failed connection eventually leaves the registry.
C2_FailureIsolated ==
    /\ [](\A b \in Events, c \in Conns :
            (tstate[b][c] = "failed" /\ bstate[b] = "returned") =>
                \A d \in regAtStart[b] \ {c} : conn[d] = "open" => Count(d, b) = 1)
    /\ \A b \in Events, c \in Conns :
            (tstate[b][c] = "failed") ~> (c \notin connected_clients)

\* C2 witness: a returned broadcast with one failed send, another recipient
\* that is open and has the payload, and the failed one out of the registry.
C2_Witness ==
    \E b \in Events, c, d \in Conns :
        /\ c # d
        /\ bstate[b] = "returned"
        /\ tstate[b][c] = "failed"
        /\ d \in regAtStart[b] /\ conn[d] = "open" /\ Count(d, b) = 1
        /\ c \notin connected_clients

\* C3: every connection receives the events it receives in the order their
\* broadcasts started.
C3_PerRecipientOrder ==
    \A c \in Conns : \A i, j \in DOMAIN recv[c] :
        i < j => StartPos(recv[c][i].ev) < StartPos(recv[c][j].ev)

\* C3 witness: a connection got two events while the first event's callback
\* was still in flight.
C3_Witness ==
    \E c \in Conns :
        /\ Len(recv[c]) = 2
        /\ bstate[recv[c][1].ev] = "waiting"
        /\ bstate[recv[c][2].ev] = "waiting"

\* C4: a configuration error is raised before any listener is bound and
\* leaves no listener bound.
C4_ConfigErrorBeforeBind ==
    err = "config" => (~wsBound /\ ~httpBound)

\* C5: main() is Running only with every Starting step done, and a startup
\* that aborts leaves no listener bound, no connection served and no
\* upstream client open.
C5_NoPartialStart ==
    /\ (pc = "running" =>
          /\ wsBound /\ httpBound
          /\ (~BDS_RELAY_ONLY => twitchOpen /\ subs = EventKinds))
    /\ (pc = "aborted" =>
          /\ ~wsBound /\ ~httpBound /\ ~twitchOpen
          /\ \A c \in Conns : hstate[c] \notin {"waiting", "woken"})

\* C6: in relay-only mode no upstream call is ever made, main() never ends
\* with a configuration or upstream error, and it is Running with both
\* listeners bound.
UpstreamErrors == {"config", "twitch_client_failed", "auth_failed",
                   "get_users_failed", "user_not_found", "subscribe_failed"}

C6_RelayOnlyNoUpstream ==
    BDS_RELAY_ONLY =>
        /\ upstreamOps = {}
        /\ ~twitchOpen
        /\ subs = {}
        /\ err \notin UpstreamErrors
        /\ pc \in {"start", "runner_setup", "site_start", "running",
                   "stopped", "aborted", "exited"}
        /\ (pc = "running" => wsBound /\ httpBound)

\* C6 witness: relay-only mode without credentials, Running, a connection
\* registered.
C6_Witness ==
    /\ BDS_RELAY_ONLY
    /\ credsSet = {}
    /\ pc = "running"
    /\ connected_clients # {}

\* C7: when main() has returned after a cancellation, in either mode, the
\* websocket listener is closed and the HTTP endpoint is released.
C7_DrainReleasesEndpoints ==
    pc = "stopped" => (~wsBound /\ ~httpBound)

\* C8: unregistering a connection that is not registered raises no error
\* and leaves the registry unchanged.
C8_UnregisterAbsentNoop ==
    \A i \in DOMAIN regTrace :
        (regTrace[i].op = "unregister" /\ regTrace[i].c \notin regTrace[i].before) =>
            (regTrace[i].error = "none" /\ regTrace[i].after = regTrace[i].before)

\* C9: a connection that has closed is eventually out of the registry.
C9_ClosedEventuallyRemoved ==
    \A c \in Conns : (conn[c] = "closed") ~> (c \notin connected_clients)

\* C9 witness: a connection closed while main() is Running and its handler
\* has removed it.
C9_Witness ==
    \E c \in Conns :
        /\ conn[c] = "closed"
        /\ hstate[c] = "done"
        /\ c \notin connected_clients
        /\ pc = "running"

\* Register c directly followed by unregister c, at positions i and i+1.
RoundTrip(i) ==
    /\ i + 1 \in DOMAIN regTrace
    /\ regTrace[i].op = "register"
    /\ regTrace[i + 1].op = "unregister"
    /\ regTrace[i + 1].c = regTrace[i].c

RegisterIdempotent ==
    \A i \in DOMAIN regTrace :
        (regTrace[i].op = "register" /\ regTrace[i].c \in regTrace[i].before) =>
            regTrace[i].after = regTrace[i].before

\* C10 as stated: registering a present connection changes nothing, and
\* registering any connection and then unregistering it restores the
\* registry.
C10_RoundTripAny ==
    /\ RegisterIdempotent
    /\ \A i \in DOMAIN regTrace :
          RoundTrip(i) => regTrace[i + 1].after = regTrace[i].before

\* C10 amended: registering a present connection changes nothing, and
\* registering a connection that was not present and then unregistering it
\* restores the registry (without error).
C10_RoundTripAbsent ==
    /\ RegisterIdempotent
    /\ \A i \in DOMAIN regTrace :
          (RoundTrip(i) /\ regTrace[i].c \notin regTrace[i].before) =>
              /\ regTrace[i + 1].after = regTrace[i].before
              /\ regTrace[i + 1].error = "none"

\* C10 witness: a connection registered into a non-empty registry that did
\* not hold it, then unregistered; and a register of a present connection.
C10_Witness ==
    /\ \E i \in DOMAIN regTrace :
          /\ RoundTrip(i)
          /\ regTrace[i].c \notin regTrace[i].before
          /\ regTrace[i].before # {}
    /\ \E i \in DOMAIN regTrace :
          regTrace[i].op = "register" /\ regTrace[i].c \in regTrace[i].before

\* C11: no callback ends by raising: once its sends are joined it has
\* returned, whichever of them failed.
C11_NeverRaises ==
    \A b \in Events :
        /\ bstate[b] \in {"none", "queued", "iterating", "waiting", "returned",
                         "cancelled"}
        /\ ((\E c \in Conns : tstate[b][c] = "failed") =>
               bstate[b] \in {"waiting", "returned", "cancelled"})

\* C11 witness: a callback over two connections has returned with every
\* one of its sends failed.
C11_Witness ==
    \E b \in Events :
        /\ bstate[b] = "returned"
        /\ Cardinality(regAtStart[b]) >= 2
        /\ \A c \in regAtStart[b] : tstate[b][c] = "failed"

\* Event b's callback takes its first step in this transition.
CallbackRuns(b) == bstate[b] = "queued" /\ bstate'[b] \notin {"queued", "cancelled"}

\* C12: a callback that runs while the registry is empty serializes nothing,
\* creates no send task, leaves the registry as it is and returns in that
\* same step, without suspending.
C12_EmptyIsNoop ==
    /\ [](\A b \in Events :
            (StartPos(b) # 0 /\ regAtStart[b] = {}) =>
                /\ bstate[b] = "returned"
                /\ payload[b] = NoPayload
                /\ serialized[b] = 0
                /\ \A c \in Conns : tstate[b][c] = "none" /\ Count(c, b) = 0)
    /\ [][\A b \in Events :
            (CallbackRuns(b) /\ connected_clients = {}) =>
                /\ bstate'[b] = "returned"
                /\ connected_clients' = connected_clients
                /\ <<payload, serialized, tstate, recv, iter>>' =
                       <<payload, serialized, tstate, recv, iter>>]_vars

\* C12 witness: a callback ran and returned with nothing serialized, after a
\* connection had come and gone, and a later connection is registered.
C12_Witness ==
    \E b \in Events :
        /\ StartPos(b) # 0
        /\ regAtStart[b] = {}
        /\ bstate[b] = "returned"
        /\ serialized[b] = 0
        /\ hstate[1] = "done"
        /\ connected_clients # {}

\* C13: the cheer payload has type "cheer", twice the bits as beans,
\* showText exactly from 100 bits on, and the user name given, or
\* "Anonymous" when there is none or it is empty.
C13_CheerNormalized ==
    cheerOut # NoPayload =>
        /\ cheerOut.type = "cheer"
        /\ cheerOut.beans = cheerIn.bits + cheerIn.bits
        /\ (cheerOut.showText <=> ~(cheerIn.bits < 100))
        /\ (Len(cheerIn.user) = 0 => cheerOut.user = "Anonymous")
        /\ (Len(cheerIn.user) = 1 =>
              cheerOut.user = (IF cheerIn.user[1] = "" THEN "Anonymous"
                               ELSE cheerIn.user[1]))

\* C13 witness: 100 bits with no user name give 200 beans, showText and
\* "Anonymous".
C13_Witness ==
    /\ cheerIn.bits = 100
    /\ cheerIn.user = <<>>
    /\ cheerOut # NoPayload
    /\ cheerOut.beans = 200 /\ cheerOut.showText /\ cheerOut.user = "Anonymous"

\* C14: when the callback awaits, a send task exists for every connection
\* of the registry and none has run before the last was created; every send
\* task gets to take its step whatever the other sends do; and the callback
\* has returned only with every send completed or failed.
C14_FanOutFanIn ==
    /\ [](\A b \in Events :
            /\ (bstate[b] = "iterating" =>
                  \A c \in Conns : tstate[b][c] \in {"none", "ready"})
            /\ (bstate[b] = "waiting" =>
                  \A c \in regAtStart[b] : tstate[b][c] # "none")
            /\ ((bstate[b] = "returned" /\ regAtStart[b] # {}) =>
                  \A c \in regAtStart[b] : tstate[b][c] \in {"ok", "failed"}))
    /\ \A b \in Events, c \in Conns :
            (tstate[b][c] = "ready") ~> (tstate[b][c] # "ready")

\* C14 witness: the callback still waits for a send that is blocked on one
\* connection while its send on another connection has completed.
C14_Witness ==
    \E b \in Events, c, d \in Conns :
        /\ bstate[b] = "waiting"
        /\ tstate[b][c] = "blocked"
        /\ tstate[b][d] = "ok"
        /\ Count(d, b) = 1

\* C15: while a callback iterates the registry no step changes the
\* registry, the registry is the one the iteration began with, and no
\* iteration ends with the iterator's RuntimeError.
C15_NoMutationWhileIterating ==
    /\ [][iter.b # 0 => connected_clients' = connected_clients]_vars
    /\ [](iter.b # 0 =>
            /\ connected_clients = regAtStart[iter.b]
            /\ bstate[iter.b] = "iterating")
    /\ [](\A b \in Events : bstate[b] # "raised")

\* C15 witness: a callback is in the middle of its iteration (one task
\* created, one connection left) while the handler of a closed connection
\* is runnable and waits to unregister it.
C15_Witness ==
    /\ iter.b # 0
    /\ Len(iter.left) >= 1
    /\ \E c \in Conns : tstate[iter.b][c] = "ready"
    /\ \E c \in Conns : hstate[c] = "woken" /\ c \in connected_clients

\* C16: after a cancellation has been drained and the process has exited,
\* no callback and no send was cut short: every broadcast ran to its end.
C16_NothingInterrupted ==
    (pc = "exited" /\ err = "none") =>
        \A b \in Events :
            /\ bstate[b] # "cancelled"
            /\ \A c \in Conns : tstate[b][c] # "cancelled"

\* C17: json.dumps runs at most once per event, once for an event that is
\* sent, and every recipient of an event is written the payload of that
\* event, the same as every other recipient's.
C17_OnePayloadPerEvent ==
    /\ \A b \in Events :
          /\ serialized[b] <= 1
          /\ ((\E c \in Conns : tstate[b][c] # "none") => serialized[b] = 1)
    /\ \A c, d \in Conns : \A i \in DOMAIN recv[c] : \A j \in DOMAIN recv[d] :
          /\ recv[c][i].payload = payload[recv[c][i].ev]
          /\ (recv[c][i].ev = recv[d][j].ev => recv[c][i].payload = recv[d][j].payload)

\* C17 witness: two connections were each written two events with
\* different payloads.
C17_Witness ==
    /\ \A c \in {1, 2} : Len(recv[c]) = 2
    /\ payload[1] # payload[2]
    /\ serialized[1] = 1 /\ serialized[2] = 1

\* C18: the registry is exactly the set of connections whose handler has
\* registered and not yet run its finally block, and no handler's remove
\* has raised KeyError.
C18_RegistryIsLiveHandlers ==
    /\ connected_clients = {c \in Conns : hstate[c] \in {"waiting", "woken"}}
    /\ \A c \in Conns : hstate[c] # "KeyError"
    /\ \A c \in Conns : (hstate[c] = "none") = (conn[c] = "none")

\* C18 witness: one handler has removed its connection while another
\* connection's handler, already woken, still has its own registered, and
\* a broadcast is waiting.
C18_Witness ==
    \E c, d \in Conns :
        /\ hstate[c] = "done"
        /\ hstate[d] = "woken"
        /\ connected_clients = {d}
        /\ \E b \in Events : bstate[b] = "waiting"

\* C19: the send tasks of a broadcast are for exactly the connections that
\* were registered when its callback ran; only those are written its
\* payload; and a task once created stays, whatever the registry does.
C19_RecipientsAreSnapshot ==
    /\ [](\A b \in Events :
            /\ (bstate[b] \in {"waiting", "returned"} =>
                  {c \in Conns : tstate[b][c] # "none"} = regAtStart[b])
            /\ \A c \in Conns : Count(c, b) >= 1 => c \in regAtStart[b])
    /\ [][\A b \in Events, c \in Conns :
            tstate[b][c] # "none" => tstate'[b][c] # "none"]_vars

\* C19 witness: while a callback waits, a connection that registered after
\* it started has no task and no payload of it, and a connection that
\* unregistered meanwhile still has its task.
C19_Witness ==
    \E b \in Events, c, d \in Conns :
        /\ bstate[b] = "waiting"
        /\ c \in connected_clients /\ c \notin regAtStart[b]
        /\ tstate[b][c] = "none" /\ Count(c, b) = 0
        /\ d \in regAtStart[b] /\ d \notin connected_clients
        /\ tstate[b][d] # "none"

====
